---- MODULE Spec2Model ----
(***************************************************************************)
(* Runnables: RunnableToken scheduling, the shared/abortable               *)
(* RunnableHandle, and the status bar StatusIconTracker.                   *)
(*                                                                         *)
(*   crates/runnable/src/lib.rs                                            *)
(*   crates/runnable/src/static_runner.rs                                  *)
(*   crates/runnables_ui/src/status_bar_icon.rs                            *)
(***************************************************************************)
EXTENDS Integers, Sequences, FiniteSets, TLC

(***************************************************************************)
(* Bounds of the model.                                                    *)
(***************************************************************************)
NumTokens == 2
MaxHandles == 2
MaxScheduleCalls == 3
MaxPushes == 2
MaxWritten == 3

Tokens == 1..NumTokens
HandleIds == 1..MaxHandles

(***************************************************************************)
(* State.                                                                  *)
(***************************************************************************)
VARIABLES
    \* ---- RunnableHandle (one entry per handle ever created by exec) ----
    nextHandle,     \* id the next RunnableHandle::new will get
    proc,           \* the process future held by the task: "none" | "running" |
                    \* "exit0" | "exit1" | "ioerr" | "dropped"
    aborted,        \* AbortHandle flag, shared by every clone of cancel_token
    taskOut,        \* output of the spawned Abortable task (Pending until it resolves)
    shared,         \* value cached by Shared<Task<..>> (Pending until a clone polls it ready)
    waiting,        \* some clone of the handle was polled and got Poll::Pending
    observed,       \* every value an observer got from awaiting a clone or from result()
    abortedEarly,   \* history: abort() was called while the task was still pending
    pollPc,         \* the task's poll: "polling" (Abortable::poll has read the
                    \* abort flag as unset and not yet polled the process
                    \* future) | "idle" (between polls, or resolved)
    abortedMidPoll, \* history: abort() was called while a poll was under way
    \* ---- RunnableToken ----
    runState,       \* Model<RunState> of each token
    execAttempts,   \* history: calls of Runnable::exec per token
    spawnCount,     \* history: successful exec calls (processes spawned) per token
    driverStarts,   \* history: cx.spawn(async_process::driver()) calls
    watcherStarts,  \* history: detached watchers spawned per token
    watcherPc,      \* detached watcher of each token: "none" | "spawned" | "awaiting" | "done"
    returned,       \* history: handle ids handed out by schedule()/handle() per token
    lastRet,        \* what the last schedule() call returned
    schedCalls,     \* history: number of schedule() calls so far
    lastQuery,      \* what the last read-only query on a token returned
    \* ---- StatusIconTracker ----
    tracker,        \* "none" before StatusIconTracker::new, then "live"
    current_status, \* Option<Succeeded>: "None" | "Some(true)" | "Some(false)"
    runnable_poller,\* _runnable_poller: "None" | "Running" | "Returned"
    rx,             \* self.rx is Some (TRUE) or was taken by start_poller (FALSE)
    queue,          \* handles sent on tx and not yet received by the poller
    futures,        \* FuturesUnordered: number of entries per handle id
    futuresTerminated, \* FuturesUnordered::is_terminated
    registered,     \* history: handles given to new() or push()
    pushes,         \* history: number of handles given to new() or push()
    processed,      \* history: handles the poller took from futures.next()
    \* ---- PendingOutput of handle 1 and the streams of its process ----
    written,        \* history: the bytes the process wrote to each stream
    pipe,           \* bytes written to each stream and not yet read
    closed,         \* the stream has ended: no more bytes will arrive
    readTask,       \* each reader's position: "read" | "push" | "send" | "yield" |
                    \* "done"
    buffer,         \* each reader's local `buffer`
    readErr,        \* history: the reader ended on a read error
    full_output,    \* the cumulative buffer, as the pieces appended to it
    output_lines,   \* history: every line sent on the line channel, in order
    fullOutputTask, \* the task of full_output(): "none" | "waiting" | "done"
    fullOutputValue \* the String that task returned

pollVars == <<pollPc, abortedMidPoll>>
handleVars == <<nextHandle, proc, aborted, taskOut, shared, waiting, observed, abortedEarly,
                pollVars>>
tokenVars == <<runState, execAttempts, spawnCount, driverStarts, watcherStarts,
               watcherPc, returned, lastRet, schedCalls, lastQuery>>
trackerVars == <<tracker, current_status, runnable_poller, rx, queue, futures,
                 futuresTerminated, registered, pushes, processed>>
captureVars == <<written, pipe, closed, readTask, buffer, readErr, full_output,
                 output_lines, fullOutputTask, fullOutputValue>>
vars == <<handleVars, tokenVars, trackerVars, captureVars>>

(***************************************************************************)
(* Values.                                                                 *)
(***************************************************************************)
\* Result<ExitStatus, Arc<anyhow::Error>>
StatusOk(code) == [tag |-> "Ok", code |-> code]
StatusErr == [tag |-> "Err", code |-> -1]

\* Poll<Result<Result<ExitStatus, Arc<Error>>, RunnableTerminated>> of the task
Pending == [kind |-> "Pending", status |-> StatusErr]
Aborted == [kind |-> "Aborted", status |-> StatusErr]
Ready(status) == [kind |-> "Ok", status |-> status]

\* Option<Result<ExecutionResult, RunnableTerminated>> as seen through a handle
NoResult == [kind |-> "None", status |-> StatusErr, output |-> 0]
Terminated == [kind |-> "Terminated", status |-> StatusErr, output |-> 0]
ExecutionResult(status, output) ==
    [kind |-> "ExecutionResult", status |-> status, output |-> output]
\* The poll of a handle panicked instead of returning: Shared::poll found
\* this instance's `inner` taken ("Shared future polled again after
\* completion").
Panicked == [kind |-> "Panic", status |-> StatusErr, output |-> 0]

\* What the process future of exec yields: the wait failed, or an exit status.
ExitOf(p) ==
    CASE p = "exit0" -> StatusOk(0)
      [] p = "exit1" -> StatusOk(1)
      [] p = "ioerr" -> StatusErr
      [] OTHER -> StatusErr

ProcOutcomes == {"exit0", "exit1", "ioerr"}
\* One successful wait and one failed wait: all a token can tell apart.
ExitOrError == {"exit0", "ioerr"}
\* A process that ran and exited with a non-zero status, and a failed wait:
\* the tracker reads status.is_err() and status.is_ok(), never the exit code.
TrackedOutcomes == {"exit1", "ioerr"}

\* Abortable::poll of the future given to RunnableHandle::new, first half:
\* the abort flag is read; when it is unset the poll goes on (Pending here).
AbortableEntry_skipsCheck(isAborted) == Pending
AbortableEntry(isAborted) == IF isAborted THEN Aborted ELSE Pending

\* Abortable::poll, second half: the process future is polled; when it is
\* not ready the waker is registered and the abort flag is read again.
AbortableInner_noRecheck(isAborted, p) ==
    IF p \in ProcOutcomes THEN Ready(ExitOf(p)) ELSE Pending
AbortableInner(isAborted, p) ==
    IF p \in ProcOutcomes THEN Ready(ExitOf(p))
    ELSE IF isAborted THEN Aborted
    ELSE Pending

\* Shared::poll by any clone: replay the cached value, else poll the task.
SharedPoll(h) == IF shared[h] # Pending THEN shared[h] ELSE taskOut[h]

\* RunnableHandle::poll / RunnableHandle::result: wrap the task's value.
HandleOutput(res, h) ==
    CASE res.kind = "Ok" -> ExecutionResult(res.status, h)
      [] res.kind = "Aborted" -> Terminated
      [] OTHER -> NoResult

NotScheduled(r) == [tag |-> "NotScheduled", runnable |-> r, handle |-> 0]
Scheduled(h) == [tag |-> "Scheduled", runnable |-> 0, handle |-> h]

Created(h) == h \in HandleIds /\ h < nextHandle

\* The two streams of a process, each with its own reader.
Streams == {"stdout", "stderr"}

\* The bytes a process may write: a letter, the newline, and a byte that is
\* not valid UTF-8.
Bytes == {"a", "nl", "bad"}

\* String::from_utf8_lossy: an invalid byte becomes U+FFFD, the rest is kept.
Utf8Lossy(b) == IF b = "bad" THEN "fffd" ELSE b
from_utf8_lossy(bytes) == [i \in DOMAIN bytes |-> Utf8Lossy(bytes[i])]

(***************************************************************************)
(* Initial state: the tokens a Source produced, nothing scheduled, no      *)
(* tracker constructed yet.                                                *)
(***************************************************************************)
InitCapture ==
    /\ written = [s \in Streams |-> <<>>]
    /\ pipe = [s \in Streams |-> <<>>]
    /\ closed = [s \in Streams |-> FALSE]
    /\ readTask = [s \in Streams |-> "read"]
    /\ buffer = [s \in Streams |-> <<>>]
    /\ readErr = [s \in Streams |-> FALSE]
    /\ full_output = <<>>
    /\ output_lines = <<>>
    /\ fullOutputTask = "none"
    /\ fullOutputValue = <<>>

InitToken ==
    /\ runState = [t \in Tokens |-> NotScheduled(t)]
    /\ execAttempts = [t \in Tokens |-> 0]
    /\ spawnCount = [t \in Tokens |-> 0]
    /\ driverStarts = 0
    /\ watcherStarts = [t \in Tokens |-> 0]
    /\ watcherPc = [t \in Tokens |-> "none"]
    /\ returned = [t \in Tokens |-> {}]
    /\ lastRet = [token |-> 0, kind |-> "none", handle |-> 0]
    /\ schedCalls = 0
    /\ lastQuery = [op |-> "none", token |-> 0, res |-> NoResult, handle |-> 0,
                    flag |-> FALSE, n |-> 0]

InitTracker ==
    /\ tracker = "none"
    /\ current_status = "None"
    /\ runnable_poller = "None"
    /\ rx = TRUE
    /\ queue = <<>>
    /\ futures = [h \in HandleIds |-> 0]
    /\ futuresTerminated = FALSE
    /\ registered = {}
    /\ pushes = 0
    /\ processed = {}

Init ==
    /\ nextHandle = 1
    /\ proc = [h \in HandleIds |-> "none"]
    /\ aborted = [h \in HandleIds |-> FALSE]
    /\ taskOut = [h \in HandleIds |-> Pending]
    /\ shared = [h \in HandleIds |-> Pending]
    /\ waiting = [h \in HandleIds |-> FALSE]
    /\ observed = [h \in HandleIds |-> {}]
    /\ abortedEarly = [h \in HandleIds |-> FALSE]
    /\ pollPc = [h \in HandleIds |-> "idle"]
    /\ abortedMidPoll = [h \in HandleIds |-> FALSE]
    /\ InitToken
    /\ InitTracker
    /\ InitCapture

\* The state after exec spawned a process with both streams piped, made its
\* PendingOutput and wrapped it in handle 1: the process is running, nothing
\* was written yet and both readers are about to read.
InitOutput ==
    /\ nextHandle = 2
    /\ proc = [h \in HandleIds |-> IF h = 1 THEN "running" ELSE "none"]
    /\ aborted = [h \in HandleIds |-> FALSE]
    /\ taskOut = [h \in HandleIds |-> Pending]
    /\ shared = [h \in HandleIds |-> Pending]
    /\ waiting = [h \in HandleIds |-> FALSE]
    /\ observed = [h \in HandleIds |-> {}]
    /\ abortedEarly = [h \in HandleIds |-> FALSE]
    /\ pollPc = [h \in HandleIds |-> "idle"]
    /\ abortedMidPoll = [h \in HandleIds |-> FALSE]
    /\ InitToken
    /\ InitTracker
    /\ InitCapture

(***************************************************************************)
(* RunnableHandle.                                                         *)
(***************************************************************************)
\* RunnableHandle::new: a fresh abort pair, the Abortable spawned as a task,
\* the task wrapped in Shared.
HandleNew(h) ==
    /\ proc' = [proc EXCEPT ![h] = "running"]
    /\ aborted' = [aborted EXCEPT ![h] = FALSE]
    /\ taskOut' = [taskOut EXCEPT ![h] = Pending]
    /\ shared' = [shared EXCEPT ![h] = Pending]
    /\ nextHandle' = h + 1
    /\ UNCHANGED <<waiting, observed, abortedEarly, pollVars>>

\* The child process ends (or waiting for it fails) while the task still
\* holds the process future.
ProcExit(h, p) ==
    /\ Created(h)
    /\ proc[h] = "running"
    /\ taskOut[h] = Pending
    /\ proc' = [proc EXCEPT ![h] = p]
    /\ UNCHANGED <<nextHandle, aborted, taskOut, shared, waiting, observed, abortedEarly, pollVars>>
    /\ UNCHANGED <<tokenVars, trackerVars>>
    /\ UNCHANGED captureVars

\* The executor polls the task (after the spawn, a wake-up by abort() or by
\* the process future, or a spurious wake-up, which a future must tolerate)
\* and Abortable::poll reads the abort flag: set,
\* the task resolves to Aborted and drops the process future (a process
\* that is still running keeps running, unobserved); unset, the poll goes on.
PollTaskBegin(h) ==
    /\ Created(h)
    /\ taskOut[h] = Pending
    /\ pollPc[h] = "idle"
    /\ IF AbortableEntry(aborted[h]) # Pending
       THEN /\ taskOut' = [taskOut EXCEPT ![h] = AbortableEntry(aborted[h])]
            /\ proc' = [proc EXCEPT ![h] = IF @ = "running" THEN "running" ELSE "dropped"]
            /\ pollPc' = [pollPc EXCEPT ![h] = "idle"]
       ELSE /\ pollPc' = [pollPc EXCEPT ![h] = "polling"]
            /\ UNCHANGED <<taskOut, proc>>
    /\ UNCHANGED <<nextHandle, aborted, shared, waiting, observed, abortedEarly,
                   abortedMidPoll>>
    /\ UNCHANGED <<tokenVars, trackerVars>>
    /\ UNCHANGED captureVars

\* The poll goes on: the process future is polled and, when it is not ready,
\* the flag is read again.  The poll returns Pending or resolves the task.
PollTaskInner(h) ==
    /\ Created(h)
    /\ pollPc[h] = "polling"
    /\ taskOut' = [taskOut EXCEPT ![h] = AbortableInner(aborted[h], proc[h])]
    /\ proc' = [proc EXCEPT ![h] =
                    IF AbortableInner(aborted[h], proc[h]) = Pending \/ @ = "running"
                    THEN @ ELSE "dropped"]
    /\ pollPc' = [pollPc EXCEPT ![h] = "idle"]
    /\ UNCHANGED <<nextHandle, aborted, shared, waiting, observed, abortedEarly,
                   abortedMidPoll>>
    /\ UNCHANGED <<tokenVars, trackerVars>>
    /\ UNCHANGED captureVars

\* AbortHandle::abort on any clone of termination_handle().
Abort(h) ==
    /\ Created(h)
    /\ ~aborted[h]
    /\ aborted' = [aborted EXCEPT ![h] = TRUE]
    /\ abortedEarly' = [abortedEarly EXCEPT ![h] = (taskOut[h] = Pending)]
    /\ abortedMidPoll' = [abortedMidPoll EXCEPT ![h] = (pollPc[h] = "polling")]
    /\ UNCHANGED <<nextHandle, proc, taskOut, shared, waiting, observed, pollPc>>
    /\ UNCHANGED <<tokenVars, trackerVars>>
    /\ UNCHANGED captureVars

\* An observation: how the observer got the value, the value, and whether
\* cancellation had been requested by then.
Obs(how, v, cancelled) == [how |-> how, val |-> v, cancelled |-> cancelled]

\* An instance whose Shared no longer holds `inner`: its own poll returned
\* Ready and took it, or it was cloned from such an instance.  There is one
\* as soon as an observer was given the value by its await.
InnerTaken(h) ==
    \E o \in observed[h] : o.how \in {"await", "late"} /\ o.val # Panicked

\* impl Future for RunnableHandle: an observer awaits a clone.  "await" is
\* a waiter that was already pending when the value arrived, "late" one
\* whose first poll finds the value.  The first poll of a clone made from an
\* instance whose `inner` was taken panics in Shared::poll.
PollHandle(h, innerTaken) ==
    /\ Created(h)
    /\ innerTaken => InnerTaken(h)
    /\ IF innerTaken
       THEN /\ Obs("late", Panicked, aborted[h]) \notin observed[h]
            /\ observed' = [observed EXCEPT ![h] = @ \cup
                                {Obs("late", Panicked, aborted[h])}]
            /\ UNCHANGED <<shared, waiting>>
       ELSE LET res == SharedPoll(h)
                o == Obs(IF waiting[h] THEN "await" ELSE "late",
                         HandleOutput(res, h), aborted[h])
            IN
             /\ shared' = [shared EXCEPT ![h] = res]
             /\ IF res = Pending
                THEN /\ ~waiting[h]
                     /\ waiting' = [waiting EXCEPT ![h] = TRUE]
                     /\ UNCHANGED observed
                ELSE /\ o \notin observed[h]
                     /\ waiting' = [waiting EXCEPT ![h] = FALSE]
                     /\ observed' = [observed EXCEPT ![h] = @ \cup {o}]
    /\ UNCHANGED <<nextHandle, proc, aborted, taskOut, abortedEarly, pollVars>>
    /\ UNCHANGED <<tokenVars, trackerVars>>
    /\ UNCHANGED captureVars

\* Shared::peek, which never polls: the cached value when this instance
\* still holds its `inner`; nothing when its own poll completed and took it
\* (or it was cloned from such an instance), and nothing while nothing is
\* cached.
SharedPeek(h, innerTaken) == IF innerTaken THEN Pending ELSE shared[h]

\* RunnableHandle::result, asked once the value is cached, on an instance
\* that still holds `inner` or on one that does not.
HandleResult(h, innerTaken) ==
    /\ Created(h)
    /\ shared[h] # Pending
    /\ innerTaken => InnerTaken(h)
    /\ Obs("result", HandleOutput(SharedPeek(h, innerTaken), h), aborted[h])
            \notin observed[h]
    /\ observed' = [observed EXCEPT ![h] = @ \cup
            {Obs("result", HandleOutput(SharedPeek(h, innerTaken), h), aborted[h])}]
    /\ UNCHANGED <<nextHandle, proc, aborted, taskOut, shared, waiting, abortedEarly, pollVars>>
    /\ UNCHANGED <<tokenVars, trackerVars>>
    /\ UNCHANGED captureVars

(***************************************************************************)
(* RunnableToken.                                                          *)
(***************************************************************************)
\* The match in schedule's state.update: which arm runs.
MustExec_always(rs) == TRUE
MustExec_rerun(rs) ==
    \/ rs.tag = "NotScheduled"
    \/ rs.tag = "Scheduled" /\ taskOut[rs.handle] # Pending
MustExec(rs) == rs.tag = "NotScheduled"

\* spawned_first_time: set in the NotScheduled arm, after exec's `?`.
SpawnedFirstTime_beforeExec(notScheduled, execOk) == notScheduled
SpawnedFirstTime_everyOk(notScheduled, execOk) == execOk
SpawnedFirstTime(notScheduled, execOk) == notScheduled /\ execOk

\* RunnableToken::schedule.  execOk is what Runnable::exec returns: a handle
\* (the process was spawned) or an error.
schedule(t, execOk) ==
    /\ schedCalls < MaxScheduleCalls
    /\ schedCalls' = schedCalls + 1
    /\ LET notScheduled == MustExec(runState[t]) IN
        \* self.state.update(cx, |this, cx| match this { .. })
        /\ IF notScheduled
           THEN /\ execAttempts' = [execAttempts EXCEPT ![t] = @ + 1]
                /\ IF execOk
                   THEN \* exec spawned the process and made the handle
                        /\ nextHandle \in HandleIds
                        /\ HandleNew(nextHandle)
                        /\ spawnCount' = [spawnCount EXCEPT ![t] = @ + 1]
                        /\ runState' = [runState EXCEPT ![t] = Scheduled(nextHandle)]
                        /\ returned' = [returned EXCEPT ![t] = @ \cup {nextHandle}]
                        /\ lastRet' = [token |-> t, kind |-> "Ok", handle |-> nextHandle]
                   ELSE \* `?` leaves the closure before anything is assigned
                        /\ lastRet' = [token |-> t, kind |-> "Err", handle |-> 0]
                        /\ UNCHANGED <<handleVars, spawnCount, runState, returned>>
           ELSE /\ returned' = [returned EXCEPT ![t] = @ \cup {runState[t].handle}]
                /\ lastRet' = [token |-> t, kind |-> "Ok", handle |-> runState[t].handle]
                /\ UNCHANGED <<handleVars, execAttempts, spawnCount, runState>>
        \* if spawned_first_time { driver; watcher }
        /\ IF SpawnedFirstTime(notScheduled, execOk)
           THEN /\ driverStarts' = driverStarts + 1
                /\ watcherStarts' = [watcherStarts EXCEPT ![t] = @ + 1]
                /\ watcherPc' = [watcherPc EXCEPT ![t] = "spawned"]
           ELSE UNCHANGED <<driverStarts, watcherStarts, watcherPc>>
    /\ UNCHANGED <<lastQuery, trackerVars>>
    /\ UNCHANGED captureVars

\* RunnableToken::handle: a clone of the stored handle, if any.
handle(t) ==
    /\ runState[t].tag = "Scheduled"
    /\ returned' = [returned EXCEPT ![t] = @ \cup {runState[t].handle}]
    /\ UNCHANGED <<handleVars, runState, execAttempts, spawnCount, driverStarts,
                   watcherStarts, watcherPc, lastRet, schedCalls, lastQuery,
                   trackerVars>>
    /\ UNCHANGED captureVars

\* What a read-only query returns: the result (NoResult is None), the handle
\* (0 is None) or the flag it computed; n tells successive queries apart.
Query(op, t, res, h, flag) ==
    [op |-> op, token |-> t, res |-> res, handle |-> h, flag |-> flag,
     n |-> 1 - lastQuery.n]

\* The value of RunnableToken::handle: Some(handle) only when Scheduled.
TokenHandle(t) ==
    IF runState[t].tag = "Scheduled" THEN runState[t].handle ELSE 0

\* The value of RunnableToken::result: the Shared is peeked, never polled.
TokenResult(t) ==
    IF runState[t].tag = "Scheduled"
    THEN HandleOutput(shared[runState[t].handle], runState[t].handle)
    ELSE NoResult

\* The value of RunnableToken::was_scheduled: self.handle(cx).is_some()
WasScheduled_byResult(t) == TokenResult(t) # NoResult
WasScheduled(t) == TokenHandle(t) # 0

\* RunnableToken::result
result(t) ==
    /\ lastQuery' = Query("result", t, TokenResult(t), 0, FALSE)
    /\ UNCHANGED <<handleVars, runState, execAttempts, spawnCount, driverStarts,
                   watcherStarts, watcherPc, returned, lastRet, schedCalls,
                   trackerVars>>
    /\ UNCHANGED captureVars

\* RunnableToken::cancel_handle: the stored handle's AbortHandle, if any.
cancel_handle(t) ==
    /\ lastQuery' = Query("cancel_handle", t, NoResult, TokenHandle(t), FALSE)
    /\ UNCHANGED <<handleVars, runState, execAttempts, spawnCount, driverStarts,
                   watcherStarts, watcherPc, returned, lastRet, schedCalls,
                   trackerVars>>
    /\ UNCHANGED captureVars

\* RunnableToken::was_scheduled
was_scheduled(t) ==
    /\ lastQuery' = Query("was_scheduled", t, NoResult, 0, WasScheduled(t))
    /\ UNCHANGED <<handleVars, runState, execAttempts, spawnCount, driverStarts,
                   watcherStarts, watcherPc, returned, lastRet, schedCalls,
                   trackerVars>>
    /\ UNCHANGED captureVars

\* The detached watcher: on its first poll it reads the handle out of the
\* state and starts awaiting handle.fut; it ends when the Shared is ready.
WatcherPoll(t) ==
    /\ watcherPc[t] \in {"spawned", "awaiting"}
    /\ IF runState[t].tag = "Scheduled"
       THEN LET h == runState[t].handle
                res == SharedPoll(h)
            IN /\ watcherPc[t] = "awaiting" => res # Pending
               /\ shared' = [shared EXCEPT ![h] = res]
               /\ watcherPc' = [watcherPc EXCEPT ![t] =
                                   IF res = Pending THEN "awaiting" ELSE "done"]
       ELSE /\ watcherPc' = [watcherPc EXCEPT ![t] = "done"]
            /\ UNCHANGED shared
    /\ UNCHANGED <<nextHandle, proc, aborted, taskOut, waiting, observed, abortedEarly,
                   pollVars>>
    /\ UNCHANGED <<runState, execAttempts, spawnCount, driverStarts, watcherStarts,
                   returned, lastRet, schedCalls, lastQuery, trackerVars>>
    /\ UNCHANGED captureVars

(***************************************************************************)
(* StaticRunner.                                                           *)
(***************************************************************************)
\* Runnable::exec called directly (as the tests do): spawn the process and
\* wrap its future in a handle.
exec ==
    /\ nextHandle \in HandleIds
    /\ HandleNew(nextHandle)
    /\ UNCHANGED <<tokenVars, trackerVars>>
    /\ UNCHANGED captureVars

(***************************************************************************)
(* StatusIconTracker.                                                      *)
(***************************************************************************)
Range(q) == {q[i] : i \in DOMAIN q}

FuturesEmpty(f) == \A h \in HandleIds : f[h] = 0

\* finished_runnable.as_ref().map_or(false, |runnable| runnable.status.is_err())
IsFailure_countsTerminated(out) ==
    \/ out.kind = "Terminated"
    \/ out.kind = "ExecutionResult" /\ out.status.tag = "Err"
IsFailure(out) == out.kind = "ExecutionResult" /\ out.status.tag = "Err"

\* finished_runnable.map_or(false, |runnable| runnable.status.is_ok())
IsSuccess(out) == out.kind = "ExecutionResult" /\ out.status.tag = "Ok"

\* The else-if of the finished branch: the status becomes Some(true).
AllSucceeded(out, rest) == IsSuccess(out) /\ FuturesEmpty(rest)

\* start_poller: the first call takes rx and spawns the poller.
PollerAfterStart(hasRx, poller) == IF hasRx THEN "Running" ELSE poller

\* What becomes of the poller once it has seen a failure: it returns.
PollerAfterFailure_keepsPolling == "Running"
PollerAfterFailure == "Returned"

\* StatusIconTracker::color
color_ignoresPoller ==
    CASE current_status = "Some(true)" -> "Success"
      [] current_status = "Some(false)" -> "Error"
      [] OTHER -> "Modified"
color ==
    IF runnable_poller = "None" THEN "None"
    ELSE CASE current_status = "Some(true)" -> "Success"
           [] current_status = "Some(false)" -> "Error"
           [] OTHER -> "Modified"

\* StatusIconTracker::new(runnables)
new(runnables) ==
    /\ tracker = "none"
    /\ Len(runnables) <= MaxPushes
    /\ \A i \in DOMAIN runnables : Created(runnables[i])
    /\ tracker' = "live"
    /\ current_status' = "None"
    /\ queue' = runnables
    /\ IF runnables # <<>>
       THEN /\ runnable_poller' = PollerAfterStart(TRUE, "None")
            /\ rx' = FALSE
       ELSE /\ runnable_poller' = "None"
            /\ rx' = TRUE
    /\ registered' = Range(runnables)
    /\ pushes' = Len(runnables)
    /\ UNCHANGED <<futures, futuresTerminated, processed>>
    /\ UNCHANGED <<handleVars, tokenVars>>
    /\ UNCHANGED captureVars

\* StatusIconTracker::push: start_poller, then send the handle; the send
\* fails (and is ignored) once the poller has returned and dropped rx.
push(h) ==
    /\ tracker = "live"
    /\ pushes < MaxPushes
    /\ Created(h)
    /\ runnable_poller' = PollerAfterStart(rx, runnable_poller)
    /\ rx' = FALSE
    /\ queue' = IF runnable_poller = "Returned" THEN queue ELSE Append(queue, h)
    /\ registered' = registered \cup {h}
    /\ pushes' = pushes + 1
    /\ UNCHANGED <<tracker, current_status, futures, futuresTerminated, processed>>
    /\ UNCHANGED <<handleVars, tokenVars>>
    /\ UNCHANGED captureVars

\* this.current_status.take() leaves None, whatever the status was.
StatusAfterReceive_keeps(status) == status
StatusAfterReceive(status) == "None"

\* The poller's select_biased!, first branch: rx.next() has a new handle.
PollerReceive ==
    /\ runnable_poller = "Running"
    /\ queue # <<>>
    /\ current_status' = StatusAfterReceive(current_status)
    /\ futures' = [futures EXCEPT ![Head(queue)] = @ + 1]
    /\ futuresTerminated' = FALSE
    /\ queue' = Tail(queue)
    /\ UNCHANGED <<tracker, runnable_poller, rx, registered, pushes, processed>>
    /\ UNCHANGED <<handleVars, tokenVars>>
    /\ UNCHANGED captureVars

\* Second branch, taken when rx.next() is pending: futures.next() yields the
\* output of a handle that is ready.
PollerFinished(h) ==
    /\ runnable_poller = "Running"
    /\ queue = <<>>
    /\ futures[h] > 0
    /\ SharedPoll(h) # Pending
    /\ LET res == SharedPoll(h)
           finished_runnable == HandleOutput(res, h)
           rest == [futures EXCEPT ![h] = @ - 1]
       IN
        /\ shared' = [shared EXCEPT ![h] = res]
        /\ processed' = processed \cup {h}
        /\ IF IsFailure(finished_runnable)
           THEN /\ current_status' = "Some(false)"
                /\ runnable_poller' = PollerAfterFailure
                \* a poller that returns drops its futures
                /\ futures' = IF PollerAfterFailure = "Returned"
                              THEN [x \in HandleIds |-> 0] ELSE rest
           ELSE /\ current_status' =
                     IF AllSucceeded(finished_runnable, rest)
                     THEN "Some(true)" ELSE current_status
                /\ futures' = rest
                /\ UNCHANGED runnable_poller
    /\ UNCHANGED <<tracker, rx, queue, futuresTerminated, registered, pushes>>
    /\ UNCHANGED <<nextHandle, proc, aborted, taskOut, waiting, observed, abortedEarly,
                   pollVars>>
    /\ UNCHANGED tokenVars
    /\ UNCHANGED captureVars

\* Second branch on an empty FuturesUnordered: futures.next() yields None,
\* nothing is done, and the stream counts as terminated until the next push.
PollerFuturesNone ==
    /\ runnable_poller = "Running"
    /\ queue = <<>>
    /\ FuturesEmpty(futures)
    /\ ~futuresTerminated
    /\ futuresTerminated' = TRUE
    /\ UNCHANGED <<tracker, current_status, runnable_poller, rx, queue, futures,
                   registered, pushes, processed>>
    /\ UNCHANGED <<handleVars, tokenVars>>
    /\ UNCHANGED captureVars

\* The lists of handles StatusIconTracker::new may be given.
HandleLists ==
    UNION {[1..n -> HandleIds] : n \in 0..MaxPushes}

(***************************************************************************)
(* PendingOutput: the two readers of handle 1's process, the cumulative    *)
(* buffer, the line channel and full_output().                             *)
(***************************************************************************)
\* The position of the first newline in bytes, 0 when there is none.
NewlineAt(bytes) ==
    IF \E i \in DOMAIN bytes : bytes[i] = "nl"
    THEN CHOOSE i \in DOMAIN bytes :
            bytes[i] = "nl" /\ \A j \in 1..(i - 1) : bytes[j] # "nl"
    ELSE 0

\* bytes_read of read_until(b'\n'): up to and including the first newline,
\* or all that is left at the end of the stream.
BytesRead(bytes) == IF NewlineAt(bytes) > 0 THEN NewlineAt(bytes) ELSE Len(bytes)

\* What read_until(b'\n') appends to `buffer`: the bytes read, newline included.
ReadUntil_stripsNewline(bytes) ==
    SelectSeq(SubSeq(bytes, 1, BytesRead(bytes)), LAMBDA b : b # "nl")
ReadUntil(bytes) == SubSeq(bytes, 1, BytesRead(bytes))

\* buffer.clear() at the top of the loop.
BufferClear_missing(buf) == buf
BufferClear(buf) == <<>>

\* capture.lock().push_str(&output_line); src records the reader that pushed.
PushStr_overwrites(capture, s, line) == <<[src |-> s, text |-> line]>>
PushStr(capture, s, line) == Append(capture, [src |-> s, text |-> line])

\* The String held by the cumulative buffer.
RECURSIVE CaptureText(_)
CaptureText(capture) ==
    IF capture = <<>> THEN <<>>
    ELSE Head(capture).text \o CaptureText(Tail(capture))

\* `?` on the read error: handle_output returns, the task logs and ends.
AfterReadError_retries == "read"
AfterReadError == "done"

\* join_all(self.output_read_tasks): ready when both read tasks have ended.
JoinAll_any(tasks) == \E s \in Streams : tasks[s] = "done"
JoinAll(tasks) == \A s \in Streams : tasks[s] = "done"

\* The process writes one byte to a stream.
Write(s, b) ==
    /\ proc[1] = "running"
    /\ ~closed[s]
    /\ Len(written["stdout"]) + Len(written["stderr"]) < MaxWritten
    /\ written' = [written EXCEPT ![s] = Append(@, b)]
    /\ pipe' = [pipe EXCEPT ![s] = Append(@, b)]
    /\ UNCHANGED <<closed, readTask, buffer, readErr, full_output, output_lines,
                   fullOutputTask, fullOutputValue>>
    /\ UNCHANGED <<handleVars, tokenVars, trackerVars>>

\* The stream ends: the process closed it or is gone.
CloseStream(s) ==
    /\ ~closed[s]
    /\ closed' = [closed EXCEPT ![s] = TRUE]
    /\ UNCHANGED <<written, pipe, readTask, buffer, readErr, full_output,
                   output_lines, fullOutputTask, fullOutputValue>>
    /\ UNCHANGED <<handleVars, tokenVars, trackerVars>>

\* handle_output: read_until returns, with a line or with 0 at the end of
\* the stream (return Ok(())).
ReadLine(s) ==
    /\ readTask[s] = "read"
    /\ NewlineAt(pipe[s]) > 0 \/ closed[s]
    /\ IF BytesRead(pipe[s]) = 0
       THEN /\ readTask' = [readTask EXCEPT ![s] = "done"]
            /\ UNCHANGED <<pipe, buffer>>
       ELSE /\ readTask' = [readTask EXCEPT ![s] = "push"]
            /\ buffer' = [buffer EXCEPT ![s] = @ \o ReadUntil(pipe[s])]
            /\ pipe' = [pipe EXCEPT ![s] =
                            SubSeq(@, BytesRead(@) + 1, Len(@))]
    /\ UNCHANGED <<written, closed, readErr, full_output, output_lines,
                   fullOutputTask, fullOutputValue>>
    /\ UNCHANGED <<handleVars, tokenVars, trackerVars>>

\* handle_output: read_until fails.  The reader returns the error, which is
\* logged; the stream, dropped with the reader, takes no more bytes.
ReadError(s) ==
    /\ readTask[s] = "read"
    /\ readTask' = [readTask EXCEPT ![s] = AfterReadError]
    /\ readErr' = [readErr EXCEPT ![s] = TRUE]
    /\ pipe' = [pipe EXCEPT ![s] = <<>>]
    /\ closed' = [closed EXCEPT ![s] = TRUE]
    /\ UNCHANGED <<written, buffer, full_output, output_lines, fullOutputTask,
                   fullOutputValue>>
    /\ UNCHANGED <<handleVars, tokenVars, trackerVars>>

\* handle_output: the decoded line is appended to the cumulative buffer.
Capture(s) ==
    /\ readTask[s] = "push"
    /\ full_output' = PushStr(full_output, s, from_utf8_lossy(buffer[s]))
    /\ readTask' = [readTask EXCEPT ![s] = "send"]
    /\ UNCHANGED <<written, pipe, closed, buffer, readErr, output_lines,
                   fullOutputTask, fullOutputValue>>
    /\ UNCHANGED <<handleVars, tokenVars, trackerVars>>

\* handle_output: the line is sent on the channel and the reader yields:
\* its poll returns to the executor.
Publish(s) ==
    /\ readTask[s] = "send"
    /\ output_lines' = Append(output_lines,
                              [src |-> s, text |-> from_utf8_lossy(buffer[s])])
    /\ readTask' = [readTask EXCEPT ![s] = "yield"]
    /\ UNCHANGED <<written, pipe, closed, buffer, readErr, full_output,
                   fullOutputTask, fullOutputValue>>
    /\ UNCHANGED <<handleVars, tokenVars, trackerVars>>

\* handle_output: polled again after the yield, the reader starts the next
\* round of the loop by clearing its buffer, and reads.
LoopAgain(s) ==
    /\ readTask[s] = "yield"
    /\ buffer' = [buffer EXCEPT ![s] = BufferClear(@)]
    /\ readTask' = [readTask EXCEPT ![s] = "read"]
    /\ UNCHANGED <<written, pipe, closed, readErr, full_output, output_lines,
                   fullOutputTask, fullOutputValue>>
    /\ UNCHANGED <<handleVars, tokenVars, trackerVars>>

\* PendingOutput::full_output is called: its task is spawned.
full_output_call ==
    /\ fullOutputTask = "none"
    /\ fullOutputTask' = "waiting"
    /\ UNCHANGED <<written, pipe, closed, readTask, buffer, readErr, full_output,
                   output_lines, fullOutputValue>>
    /\ UNCHANGED <<handleVars, tokenVars, trackerVars>>

\* The task of full_output(): join_all is ready and the buffer is cloned.
FullOutputReady ==
    /\ fullOutputTask = "waiting"
    /\ JoinAll(readTask)
    /\ fullOutputTask' = "done"
    /\ fullOutputValue' = CaptureText(full_output)
    /\ UNCHANGED <<written, pipe, closed, readTask, buffer, readErr, full_output,
                   output_lines>>
    /\ UNCHANGED <<handleVars, tokenVars, trackerVars>>

(***************************************************************************)
(* Specifications.                                                         *)
(***************************************************************************)
\* Every token with its handle: scheduling, the watcher, the process and
\* the task.
Next ==
    \/ \E t \in Tokens, execOk \in BOOLEAN : schedule(t, execOk)
    \/ \E t \in Tokens : handle(t)
    \/ \E t \in Tokens : WatcherPoll(t)
    \/ \E h \in HandleIds, p \in ExitOrError : ProcExit(h, p)
    \/ \E h \in HandleIds : PollTaskBegin(h)
    \/ \E h \in HandleIds : PollTaskInner(h)

Spec == Init /\ [][Next]_vars

\* One token, scheduled several times, and the observers of its handle.
NextObserved ==
    \/ \E execOk \in BOOLEAN : schedule(1, execOk)
    \/ handle(1)
    \/ WatcherPoll(1)
    \/ \E h \in HandleIds, p \in ProcOutcomes : ProcExit(h, p)
    \/ \E h \in HandleIds : PollTaskBegin(h)
    \/ \E h \in HandleIds : PollTaskInner(h)
    \/ \E h \in HandleIds : Abort(h)
    \/ \E h \in HandleIds, innerTaken \in BOOLEAN : PollHandle(h, innerTaken)
    \/ \E h \in HandleIds, innerTaken \in BOOLEAN : HandleResult(h, innerTaken)

SpecObserved == Init /\ [][NextObserved]_vars

\* One token, scheduled several times, and the read-only queries on it.
NextQueries ==
    \/ \E execOk \in BOOLEAN : schedule(1, execOk)
    \/ handle(1)
    \/ result(1)
    \/ cancel_handle(1)
    \/ was_scheduled(1)
    \/ WatcherPoll(1)
    \/ \E h \in HandleIds, p \in ExitOrError : ProcExit(h, p)
    \/ \E h \in HandleIds : PollTaskBegin(h)
    \/ \E h \in HandleIds : PollTaskInner(h)
    \/ \E h \in HandleIds : Abort(h)

SpecQueries == Init /\ [][NextQueries]_vars

\* One process that runs until it exits, with its handle and its
\* PendingOutput.
NextOutput ==
    \/ \E s \in Streams, b \in Bytes : Write(s, b)
    \/ \E s \in Streams : CloseStream(s)
    \/ \E s \in Streams : ReadLine(s)
    \/ \E s \in Streams : ReadError(s)
    \/ \E s \in Streams : Capture(s)
    \/ \E s \in Streams : Publish(s)
    \/ \E s \in Streams : LoopAgain(s)
    \/ full_output_call
    \/ FullOutputReady
    \/ \E h \in HandleIds : ProcExit(h, "exit0")
    \/ \E h \in HandleIds : PollTaskBegin(h)
    \/ \E h \in HandleIds : PollTaskInner(h)

SpecOutput == InitOutput /\ [][NextOutput]_vars

\* The tracker and the handles it is given, made by exec.
NextTracker ==
    \/ exec
    \/ \E h \in HandleIds, p \in TrackedOutcomes : ProcExit(h, p)
    \/ \E h \in HandleIds : PollTaskBegin(h)
    \/ \E h \in HandleIds : PollTaskInner(h)
    \/ \E h \in HandleIds : Abort(h)
    \/ \E runnables \in HandleLists : new(runnables)
    \/ \E h \in HandleIds : push(h)
    \/ PollerReceive
    \/ \E h \in HandleIds : PollerFinished(h)
    \/ PollerFuturesNone

SpecTracker == Init /\ [][NextTracker]_vars

\* The token of SpecObserved, with the scheduling the code guarantees: the
\* executor polls a woken task (abort() and the process exit wake the
\* Abortable task; the task's completion wakes the watcher).
SpecObservedFair ==
    /\ SpecObserved
    /\ \A h \in HandleIds : WF_vars(PollTaskBegin(h)) /\ WF_vars(PollTaskInner(h))
    /\ WF_vars(WatcherPoll(1))

(***************************************************************************)
(* Claims.                                                                 *)
(***************************************************************************)
Sum(f, S) ==
    LET RECURSIVE Go(_)
        Go(T) == IF T = {} THEN 0
                 ELSE LET x == CHOOSE y \in T : TRUE IN f[x] + Go(T \ {x})
    IN Go(S)

\* C1: however many schedule() calls are made on a token, at most one
\* process is ever spawned for it; it is exactly one as soon as an exec
\* succeeded (the token is Scheduled), and no call on a Scheduled token
\* spawns, so the handles created are exactly the Scheduled tokens.
C1_AtMostOneSpawn ==
    /\ \A t \in Tokens :
        /\ spawnCount[t] <= 1
        /\ runState[t].tag = "Scheduled" <=> spawnCount[t] = 1
        /\ spawnCount[t] <= execAttempts[t]
    /\ nextHandle - 1 = Sum(spawnCount, Tokens)

\* Three schedule() calls, all on token 1, whose first exec succeeded.
C1_Witness ==
    /\ schedCalls >= 3
    /\ \A t \in Tokens \ {1} : execAttempts[t] = 0
    /\ execAttempts[1] = 1
    /\ spawnCount[1] = 1
    /\ lastRet = [token |-> 1, kind |-> "Ok", handle |-> runState[1].handle]

\* C2: every handle handed out for a token is the one stored handle; the
\* Shared caches the task's output and never changes it; and every value
\* any observer got (a waiter, a late awaiter, result(), before or after a
\* cancellation request) is that cached output.
C2_Inv ==
    /\ \A t \in Tokens :
        /\ Cardinality(returned[t]) <= 1
        /\ runState[t].tag = "Scheduled" => returned[t] = {runState[t].handle}
    /\ \A h \in HandleIds :
        /\ shared[h] # Pending => shared[h] = taskOut[h]
        /\ \A o \in observed[h] :
            /\ shared[h] # Pending
            /\ o.val = HandleOutput(shared[h], h)
            /\ o.val # NoResult
C2_Step ==
    \A h \in HandleIds :
        /\ shared[h] # Pending => shared'[h] = shared[h]
        /\ taskOut[h] # Pending => taskOut'[h] = taskOut[h]
        /\ observed[h] \subseteq observed'[h]
C2_SameOutcome == []C2_Inv /\ [][C2_Step]_vars

\* C3: once a token is Scheduled(handle) its RunState never changes again.
C3_Step ==
    \A t \in Tokens : runState[t].tag = "Scheduled" => runState'[t] = runState[t]
C3_OneDirectional == [][C3_Step]_vars

\* A Scheduled token whose handle was cancelled and resolved to Terminated,
\* and which was scheduled again: it still holds the same handle.
C3_Witness ==
    /\ runState[1] = Scheduled(1)
    /\ shared[1] = Aborted
    /\ schedCalls >= 3
    /\ execAttempts[1] = 1
    /\ \A t \in Tokens \ {1} : execAttempts[t] = 0

\* C4: a schedule() on a NotScheduled token always calls exec; when exec
\* fails the call returns the error and changes nothing else: the RunState
\* (with its runnable), the handles, the driver and the watcher.
C4_Step ==
    schedCalls' = schedCalls + 1 =>
        LET t == lastRet'.token IN
            /\ runState[t].tag = "NotScheduled" =>
                execAttempts'[t] = execAttempts[t] + 1
            /\ (execAttempts'[t] = execAttempts[t] + 1 /\ spawnCount'[t] = spawnCount[t]) =>
                /\ lastRet'.kind = "Err"
                /\ runState' = runState
                /\ runState'[t] = NotScheduled(t)
                /\ UNCHANGED <<handleVars, spawnCount, driverStarts, watcherStarts,
                               watcherPc, returned>>
            /\ lastRet'.kind = "Err" => runState[t].tag = "NotScheduled"
C4_SpawnErrorChangesNothing == [][C4_Step]_vars

\* exec failed twice on token 1 and then succeeded: the last call's retry.
C4_Witness ==
    /\ execAttempts[1] = 3
    /\ spawnCount[1] = 1
    /\ driverStarts = 1
    /\ watcherStarts[1] = 1
    /\ lastRet = [token |-> 1, kind |-> "Ok", handle |-> 1]

\* C5 as stated: a handle whose cancellation was requested while its task
\* was still pending never resolves to an ExecutionResult: the task's output
\* and the cached value are Terminated and no observer is given a status.
C5_AsStated ==
    \A h \in HandleIds :
        abortedEarly[h] =>
            /\ taskOut[h] \in {Pending, Aborted}
            /\ shared[h] \in {Pending, Aborted}
            /\ \A o \in observed[h] : o.val.kind # "ExecutionResult"

\* C5, amended: the same for a request that did not arrive while a poll of
\* the task was under way; and a poll that was under way when the request
\* arrived resolves to Terminated too unless it finds the process future
\* ready.
C5_Inv ==
    \A h \in HandleIds :
        (abortedEarly[h] /\ ~abortedMidPoll[h]) =>
            /\ taskOut[h] \in {Pending, Aborted}
            /\ shared[h] \in {Pending, Aborted}
            /\ \A o \in observed[h] : o.val.kind # "ExecutionResult"
C5_Step ==
    \A h \in HandleIds :
        ( /\ pollPc[h] = "polling" /\ pollPc'[h] = "idle"
          /\ aborted[h]
          /\ proc[h] \notin ProcOutcomes )
            => taskOut'[h] = Aborted
C5_AbortedNeverStatus == []C5_Inv /\ [][C5_Step]_vars

\* Cancelled after the process exited, with no poll under way and the task
\* still pending; resolved, and seen as Terminated by a waiter that had
\* polled before and by result().
C5_Witness ==
    /\ abortedEarly[1]
    /\ ~abortedMidPoll[1]
    /\ taskOut[1] = Aborted
    /\ proc[1] = "dropped"
    /\ \E o \in observed[1] : o.how = "await" /\ o.val = Terminated
    /\ \E o \in observed[1] : o.how = "result" /\ o.val = Terminated

\* C6 as stated: a handle cancelled while its process is running eventually
\* resolves to Terminated (task and cached value).
C6_AsStated ==
    \A h \in HandleIds :
        (Created(h) /\ aborted[h] /\ taskOut[h] = Pending /\ proc[h] = "running")
            ~> (taskOut[h] = Aborted /\ shared[h] = Aborted)

\* C6, amended: a handle cancelled while its process is running eventually
\* resolves, whether or not the process exits; and it resolves to Terminated
\* when no poll of its task was under way at that moment.
C6_CancelResolves ==
    \A h \in HandleIds :
        /\ (Created(h) /\ aborted[h] /\ taskOut[h] = Pending /\ proc[h] = "running")
                ~> (taskOut[h] # Pending /\ shared[h] # Pending)
        /\ (Created(h) /\ aborted[h] /\ taskOut[h] = Pending /\ proc[h] = "running"
                /\ pollPc[h] = "idle")
                ~> (taskOut[h] = Aborted /\ shared[h] = Aborted)

\* Resolved to Terminated while the process is still running.
C6_Witness ==
    /\ abortedEarly[1]
    /\ taskOut[1] = Aborted
    /\ shared[1] = Aborted
    /\ proc[1] = "running"

\* C7: once current_status is Some(false) it stays Some(false), and the
\* status query keeps reporting the failed state, whatever resolves or is
\* pushed afterwards.
C7_Step ==
    current_status = "Some(false)" =>
        /\ current_status' = "Some(false)"
        /\ color' = "Error"
C7_FailureSticky == [][C7_Step]_vars

\* After the failure a second handle was pushed and resolved successfully.
C7_Witness ==
    /\ current_status = "Some(false)"
    /\ runnable_poller = "Returned"
    /\ \E h \in registered :
        /\ h \notin processed
        /\ taskOut[h] = Ready(StatusOk(1))
    /\ \E h \in processed : taskOut[h] = Ready(StatusErr)

\* C8: a tracker that was never given a handle reports "never started"
\* (color() is None) and has current_status None; a tracker that was given
\* a handle, by new() or push(), always reports one of the three states.
C8_NeverStarted ==
    tracker = "live" =>
        /\ pushes = 0 => color = "None" /\ current_status = "None"
        /\ pushes > 0 => color \in {"Success", "Error", "Modified"}

\* A tracker made from an empty list, never pushed to, while a handle that
\* exists has already resolved.
C8_Witness ==
    /\ tracker = "live"
    /\ pushes = 0
    /\ \E h \in HandleIds : taskOut[h] \notin {Pending, Aborted}
    /\ color = "None"

\* C9 as stated, for the handles the poller has taken from its queue (push
\* only enqueues, so a handle pushed since the status was set may still be
\* queued): while current_status is Some(true), every such handle has
\* resolved with an Ok status: none is outstanding, none failed and none
\* resolved to Terminated.
C9_AsStated ==
    current_status = "Some(true)" =>
        \A h \in registered \ Range(queue) :
            /\ futures[h] = 0
            /\ h \in processed
            /\ IsSuccess(HandleOutput(shared[h], h))

\* C10 as stated: once the poller has taken the result of a handle whose
\* process exited with a non-zero status, current_status is Some(false).
C10_AsStated ==
    \A h \in processed :
        shared[h] = Ready(StatusOk(1)) => current_status = "Some(false)"

\* C11: when the running poller takes a newly registered handle, the status
\* becomes None and the handle joins the outstanding set; and the status
\* only becomes Some(true) by a step in which an outstanding handle's Ok
\* result is taken and the outstanding set is left empty.
C11_Step ==
    /\ (runnable_poller = "Running" /\ queue # <<>> /\ queue' = Tail(queue)) =>
        /\ current_status' = "None"
        /\ futures'[Head(queue)] = futures[Head(queue)] + 1
        /\ \A g \in HandleIds \ {Head(queue)} : futures'[g] = futures[g]
        /\ runnable_poller' = "Running"
    /\ (current_status # "Some(true)" /\ current_status' = "Some(true)") =>
        /\ FuturesEmpty(futures')
        /\ queue = <<>> /\ queue' = <<>>
        /\ \E h \in HandleIds :
            /\ futures[h] = 1
            /\ \A g \in HandleIds \ {h} : futures[g] = 0
            /\ IsSuccess(HandleOutput(shared'[h], h))
            /\ h \in processed'
C11_ResetOnRegistration == [][C11_Step]_vars

\* A handle succeeded, and the same handle, registered again by a later
\* push, was taken by the poller: it is outstanding and the status is None.
C11_Witness ==
    /\ current_status = "None"
    /\ runnable_poller = "Running"
    /\ queue = <<>>
    /\ pushes = 2
    /\ \E h \in processed :
        /\ registered = {h}
        /\ IsSuccess(HandleOutput(shared[h], h))
        /\ futures[h] = 1
        /\ futuresTerminated = FALSE

\* C18 as stated: once at least one handle is registered and the poller has
\* nothing left to do (no handle queued, none outstanding, every registered
\* handle resolved), the status is Some(true) or Some(false); with no further
\* push nothing changes it afterwards, so a None here is pending forever.
C18_AsStated ==
    ( /\ tracker = "live"
      /\ pushes > 0
      /\ queue = <<>>
      /\ FuturesEmpty(futures)
      /\ \A h \in registered : taskOut[h] # Pending )
        => current_status \in {"Some(true)", "Some(false)"}

\* C19: the step in which the poller takes a Terminated result changes
\* neither the status nor the poller, which is still running.
C19_Step ==
    \A h \in HandleIds :
        ( /\ runnable_poller = "Running"
          /\ futures'[h] = futures[h] - 1
          /\ \A g \in HandleIds \ {h} : futures'[g] = futures[g]
          /\ HandleOutput(shared'[h], h) = Terminated )
            => /\ current_status' = current_status
               /\ runnable_poller' = "Running"
               /\ color' = color
C19_TerminatedIsNeutral == [][C19_Step]_vars

\* The poller took a Terminated result and, still running, the Ok result of
\* a handle it received with it or afterwards: the status is Some(true).
C19_Witness ==
    /\ runnable_poller = "Running"
    /\ current_status = "Some(true)"
    /\ \E h \in processed : HandleOutput(shared[h], h) = Terminated
    /\ \E h \in processed : IsSuccess(HandleOutput(shared[h], h))

\* C17: a token's RunState changes only in a schedule() call that found it
\* NotScheduled and whose exec succeeded; every query leaves it unchanged;
\* was_scheduled() returns true exactly when the state is Scheduled; and
\* result() returns None when the token is NotScheduled or its handle's
\* task has not resolved.
C17_Step ==
    /\ \A t \in Tokens :
        runState'[t] # runState[t] =>
            /\ schedCalls' = schedCalls + 1
            /\ lastRet' = [token |-> t, kind |-> "Ok", handle |-> runState'[t].handle]
            /\ runState[t].tag = "NotScheduled"
            /\ runState'[t].tag = "Scheduled"
            /\ spawnCount'[t] = spawnCount[t] + 1
    /\ lastQuery' # lastQuery =>
        LET q == lastQuery'
            t == q.token
        IN /\ runState' = runState
           /\ q.op = "was_scheduled" => (q.flag <=> runState[t].tag = "Scheduled")
           /\ q.op = "result" =>
                ( ( \/ runState[t].tag = "NotScheduled"
                    \/ taskOut[runState[t].handle] = Pending )
                  => q.res = NoResult )
C17_OnlyScheduleChangesState == [][C17_Step]_vars

\* A Scheduled token, scheduled again, whose watcher is awaiting the
\* unresolved handle: result() was asked and returned None.
C17_Witness ==
    /\ lastQuery.op = "result"
    /\ lastQuery.res = NoResult
    /\ runState[1] = Scheduled(1)
    /\ taskOut[1] = Pending
    /\ schedCalls >= 2
    /\ execAttempts[1] = 1
    /\ watcherPc[1] = "awaiting"

\* C20: the driver starts are as many as the Scheduled tokens and each
\* token's watcher was started once if it is Scheduled, never otherwise; a
\* schedule() on a Scheduled token and a schedule() whose exec failed start
\* neither; and a handle made through a token means a driver was started.
C20_Inv ==
    /\ driverStarts = Cardinality({t \in Tokens : runState[t].tag = "Scheduled"})
    /\ \A t \in Tokens :
        watcherStarts[t] = IF runState[t].tag = "Scheduled" THEN 1 ELSE 0
    /\ nextHandle > 1 => driverStarts >= 1
C20_Step ==
    schedCalls' = schedCalls + 1 =>
        LET t == lastRet'.token IN
            (runState[t].tag = "Scheduled" \/ lastRet'.kind = "Err") =>
                /\ driverStarts' = driverStarts
                /\ watcherStarts' = watcherStarts
C20_StartedOncePerToken == []C20_Inv /\ [][C20_Step]_vars

\* Two tokens are Scheduled after three calls, the last one on a token
\* that was Scheduled already: two driver starts, one watcher for each.
C20_Witness ==
    /\ schedCalls = 3
    /\ \A t \in {1, 2} : runState[t].tag = "Scheduled" /\ execAttempts[t] = 1
    /\ driverStarts = 2
    /\ watcherStarts[1] = 1 /\ watcherStarts[2] = 1

\* Helpers of the claims on PendingOutput.
IsPrefix(a, b) == Len(a) <= Len(b) /\ SubSeq(b, 1, Len(a)) = a

\* The pieces one stream's reader contributed, in their order, and their text.
StreamLines(entries, s) ==
    LET own == SelectSeq(entries, LAMBDA e : e.src = s)
    IN [i \in DOMAIN own |-> own[i].text]
StreamText(entries, s) ==
    CaptureText(SelectSeq(entries, LAMBDA e : e.src = s))

OtherStream(s) == CHOOSE o \in Streams : o # s

\* The task's first resolution after the process exited 0, uncancelled.
StatusOfExit0 ==
    (taskOut[1] = Pending /\ taskOut'[1] # Pending /\ proc[1] = "exit0" /\ ~aborted[1])
        => taskOut'[1] = Ready(StatusOk(0))

\* C12 as stated: when the process wrote to one stream only and both readers
\* have finished, the cumulative buffer is exactly the bytes it wrote; and
\* the status is success when the process exited 0.
C12_AsStated ==
    /\ [](\A s \in Streams :
            (written[OtherStream(s)] = <<>> /\ JoinAll(readTask))
                => CaptureText(full_output) = written[s])
    /\ [][StatusOfExit0]_vars

\* C12, amended: when the process wrote to one stream only, both readers
\* have finished and that stream's reader ended at the end of the stream,
\* the cumulative buffer is the lossy decoding of all the bytes written, which
\* is exactly what was written when it has no invalid byte; and the task of
\* an uncancelled handle resolves to an Ok status of code 0 when the process
\* exited 0.
C12_OutputFidelity ==
    /\ [](\A s \in Streams :
            (written[OtherStream(s)] = <<>> /\ JoinAll(readTask) /\ ~readErr[s])
                => /\ CaptureText(full_output) = from_utf8_lossy(written[s])
                   /\ (\A i \in DOMAIN written[s] : written[s][i] # "bad")
                        => CaptureText(full_output) = written[s])
    /\ [][StatusOfExit0]_vars

\* stdout got a line and then text with no trailing newline, stderr nothing;
\* both readers ended at the end of their stream, the buffer holds what was
\* written and the handle resolved to exit status 0.
C12_Witness ==
    /\ written = [s \in Streams |-> IF s = "stdout" THEN <<"a", "nl", "a">> ELSE <<>>]
    /\ JoinAll(readTask)
    /\ \A s \in Streams : ~readErr[s]
    /\ CaptureText(full_output) = <<"a", "nl", "a">>
    /\ taskOut[1] = Ready(StatusOk(0))

\* C13: for each stream, what its reader appended to the buffer, and what it
\* sent on the channel, are whole lines whose concatenation is a prefix of
\* what the process wrote to that stream (decoded): the lines appear in the
\* order written, whatever the other reader does; and a reader that ended at
\* the end of its stream has contributed all of it.
C13_PerStreamOrder ==
    \A s \in Streams :
        /\ IsPrefix(StreamText(full_output, s), from_utf8_lossy(written[s]))
        /\ IsPrefix(StreamText(output_lines, s), from_utf8_lossy(written[s]))
        /\ \A i \in DOMAIN full_output :
            /\ full_output[i].text # <<>>
            /\ NewlineAt(full_output[i].text) \in {0, Len(full_output[i].text)}
        /\ \A i \in DOMAIN output_lines :
            /\ output_lines[i].text # <<>>
            /\ NewlineAt(output_lines[i].text) \in {0, Len(output_lines[i].text)}
        /\ (readTask[s] = "done" /\ ~readErr[s]) =>
            /\ StreamText(full_output, s) = from_utf8_lossy(written[s])
            /\ StreamText(output_lines, s) = from_utf8_lossy(written[s])

\* stdout's two lines are in the buffer in the order written, with stderr's
\* line between them, while the channel got stderr's line first.
C13_Witness ==
    /\ JoinAll(readTask)
    /\ StreamLines(full_output, "stdout") = << <<"nl">>, <<"a">> >>
    /\ [i \in DOMAIN full_output |-> full_output[i].src]
            = <<"stdout", "stderr", "stdout">>
    /\ [i \in DOMAIN output_lines |-> output_lines[i].src]
            = <<"stderr", "stdout", "stdout">>

\* C14: the cumulative buffer only grows at its end, and for each stream the
\* lines sent on the channel are a prefix of the lines that stream's reader
\* has appended to the buffer.
C14_Step == IsPrefix(CaptureText(full_output), CaptureText(full_output'))
C14_Inv ==
    \A s \in Streams :
        IsPrefix(StreamLines(output_lines, s), StreamLines(full_output, s))
C14_AppendOnly == []C14_Inv /\ [][C14_Step]_vars

\* stdout's second line is in the buffer and not yet on the channel.
C14_Witness ==
    /\ readTask["stdout"] = "send"
    /\ Len(StreamLines(full_output, "stdout")) = 2
    /\ Len(StreamLines(output_lines, "stdout")) = 1

\* C15: the task of full_output() is done only when both readers have ended,
\* and its value is the text of the cumulative buffer, which holds every line
\* either reader sent on the channel.
C15_FullOutputAfterReaders ==
    fullOutputTask = "done" =>
        /\ JoinAll(readTask)
        /\ fullOutputValue = CaptureText(full_output)
        /\ \A s \in Streams :
            /\ StreamLines(output_lines, s) = StreamLines(full_output, s)
            /\ IsPrefix(StreamText(full_output, s), from_utf8_lossy(written[s]))

\* full_output() returned a text with lines of both streams.
C15_Witness ==
    /\ fullOutputTask = "done"
    /\ \A s \in Streams : StreamLines(full_output, s) # <<>>
    /\ Len(fullOutputValue) = 3

\* C16: the step in which a reader gets a read error ends that reader and
\* changes neither the buffer, nor the channel, nor the other reader, nor the
\* handle; and a reader that ended on an error counts as ended for
\* full_output(), whose task can complete once the other has ended too.
C16_Step ==
    \A s \in Streams :
        (~readErr[s] /\ readErr'[s]) =>
            /\ readTask'[s] = "done"
            /\ full_output' = full_output
            /\ output_lines' = output_lines
            /\ readTask'[OtherStream(s)] = readTask[OtherStream(s)]
            /\ buffer'[OtherStream(s)] = buffer[OtherStream(s)]
            /\ pipe'[OtherStream(s)] = pipe[OtherStream(s)]
            /\ closed'[OtherStream(s)] = closed[OtherStream(s)]
            /\ UNCHANGED <<handleVars, fullOutputTask, fullOutputValue>>
C16_Inv ==
    /\ \A s \in Streams : readErr[s] => readTask[s] = "done"
    /\ (fullOutputTask = "waiting" /\ \A s \in Streams : readTask[s] = "done")
            => ENABLED FullOutputReady
C16_ReadErrorIsLocal == []C16_Inv /\ [][C16_Step]_vars

\* stdout's reader captured a line and then ended on a read error that lost
\* a byte; stderr's line was captured, full_output() returned both lines and
\* the handle resolved to exit status 0.
C16_Witness ==
    /\ readErr["stdout"] /\ ~readErr["stderr"]
    /\ written["stdout"] = <<"nl", "a">>
    /\ StreamLines(full_output, "stdout") = << <<"nl">> >>
    /\ StreamLines(output_lines, "stdout") = << <<"nl">> >>
    /\ StreamLines(full_output, "stderr") = << <<"a">> >>
    /\ fullOutputTask = "done"
    /\ Len(fullOutputValue) = 2
    /\ taskOut[1] = Ready(StatusOk(0))

\* C21 as stated: when both readers have ended, the lines sent on the channel,
\* concatenated in channel order, are exactly the text of the cumulative
\* buffer.
C21_AsStated ==
    JoinAll(readTask) => CaptureText(output_lines) = CaptureText(full_output)

====
